---- MODULE Spec2Model ----
(***************************************************************************)
(* A model of the Socket.IO party-game server in app.py.                   *)
(*                                                                         *)
(* The module-level dictionaries (lobbies, player_to_lobby, sid_to_id,     *)
(* id_to_sid) are functions with a finite domain.  Lobby objects live in   *)
(* `heap` so that a handler can keep a reference to a lobby that is no     *)
(* longer (or not the one) registered under its code.  Every `await        *)
(* sio.emit(...)` is a suspension point: a handler is a task that runs     *)
(* atomically from one suspension point to the next, and tasks interleave  *)
(* at these points.  The emit call itself is recorded in the task's `sent` *)
(* log at the moment it is made.                                           *)
(***************************************************************************)
EXTENDS Integers, Sequences, FiniteSets, TLC

\* ------------------------------------------------------------------ bounds
NumSids == 3
NumClientIds == 2
NumCodes == 1
MaxLobbies == 1
MaxTasks == 2
MaxRoster == 2
MaxPromptRoster == 3
MaxScore == 3
MaxJoinRoster == 13
MaxRegistry == 2

\* ------------------------------------------------------- program constants
MinCode == 1000
MaxPlayers == 12

None == "None"
NoLobby == 0
NoCode == <<"none", 0>>

SidNames == <<"s1", "s2", "s3", "s4", "s5">>
ClientIdNames == <<"a", "b", "c", "d">>
Sids == {SidNames[i] : i \in 1..NumSids}
ClientIds == {ClientIdNames[i] : i \in 1..NumClientIds}
Codes == MinCode..(MinCode + NumCodes - 1)
Slots == 1..MaxTasks

\* GameState values used by the handlers.
WAITING == "waiting"
WRITING == "writing"
VIEWING == "viewing"
DRAWING == "drawing"
END == "end"

\* app.py holds the server twice.  Run as a script, uvicorn.run in the main
\* block of the first half serves the first sio and its handlers, and the
\* second half is not executed while the server runs; imported by an ASGI
\* server, the second half rebinds sio, asgi_app and every handler.
\* `served` is the half whose handlers the running server holds.
Versions == {"first", "second"}

VARIABLES lobbies, heap, player_to_lobby, sid_to_id, id_to_sid,
          tasks, connected, served

vars == <<lobbies, heap, player_to_lobby, sid_to_id, id_to_sid,
          tasks, connected, served>>

\* ------------------------------------------------------ dictionary helpers
Get(d, k, default) == IF k \in DOMAIN d THEN d[k] ELSE default

Pop(d, k) == [x \in (DOMAIN d) \ {k} |-> d[x]]

Put(d, k, v) == [x \in (DOMAIN d) \cup {k} |-> IF x = k THEN v ELSE d[x]]

EmptyDict == [x \in {} |-> None]

\* A key of the lobbies dictionary.  The codes the server makes are Python
\* ints; str(code) is a different key that no int key is equal to.
IntKey(c) == <<"int", c>>

Str(k) == <<"str", k[2]>>

\* ------------------------------------------------------------- utilities
get_id_from_sid(sid) == Get(sid_to_id, sid, sid)

GetSidFromId(i2s, player_id) == Get(i2s, player_id, player_id)

get_sid_from_id(player_id) == GetSidFromId(id_to_sid, player_id)

\* get_lobby_and_player: <<lobby object or NoLobby, lobby_code or NoCode>>
GetLobbyAndPlayer(p2l, lobs, player_id) ==
    LET lobby_code == Get(p2l, player_id, NoCode)
    IN  IF lobby_code = NoCode THEN <<NoLobby, NoCode>>
        ELSE <<Get(lobs, lobby_code, NoLobby), lobby_code>>

get_lobby_and_player(player_id) ==
    GetLobbyAndPlayer(player_to_lobby, lobbies, player_id)

\* ------------------------------------------------------- Player and Lobby
\* given_owner is bookkeeping: the owner of the pool entry whose text became
\* prompt_given, Nobody before the first give.
Nobody == "nobody"

Player(id, username) ==
    [id |-> id, username |-> username, prompt_written |-> None,
     prompt_given |-> None, given_owner |-> Nobody, drawing_data |-> None,
     voted_already |-> FALSE, voting_score |-> 0]

get_as_dict(p) ==
    [id |-> p.id, username |-> p.username,
     prompt_written |-> p.prompt_written, prompt_given |-> p.prompt_given]

PlayersPayload(players) == [i \in 1..Len(players) |-> get_as_dict(players[i])]

\* _generate_lobby_code accepts a sampled code when str(code) is no key of
\* lobbies.
CodeAccepted(code) == Str(IntKey(code)) \notin DOMAIN lobbies

\* A Lobby whose constructor puts its host on the roster.
LobbyWithHost(host_id, code) ==
    [host_id |-> host_id, lobby_code |-> IntKey(code),
     players |-> <<Player(host_id, None)>>,
     current_state |-> WAITING, round_voters |-> {}, recent_voters |-> {}]

\* round_voters and recent_voters are bookkeeping: the identities whose vote
\* was accepted since the latest set_presenter event of the lobby arrived,
\* and since the latest arrival or return of a set_presenter handler.
Lobby(host_id, code) ==
    [host_id |-> host_id, lobby_code |-> IntKey(code), players |-> <<>>,
     current_state |-> WAITING, round_voters |-> {}, recent_voters |-> {}]

RemoveAt(s, i) == [j \in 1..(Len(s) - 1) |-> IF j < i THEN s[j] ELSE s[j + 1]]

FirstWithId(players, player_id) ==
    IF \E i \in 1..Len(players) : players[i].id = player_id
    THEN CHOOSE i \in 1..Len(players) :
            /\ players[i].id = player_id
            /\ \A j \in 1..(i - 1) : players[j].id # player_id
    ELSE 0

\* Lobby.remove_player without a callback: the roster after the call.
remove_player(players, player_id) ==
    LET i == FirstWithId(players, player_id)
    IN  IF i = 0 THEN players ELSE RemoveAt(players, i)

\* Lobby.add_player: the roster after the append.
add_player(players, player) == Append(players, player)

\* ------------------------------------------------------------------ tasks
Msg(ev, data, to) == [ev |-> ev, data |-> data, to |-> to]

IdleTask ==
    [op |-> "idle", pc |-> "idle", sid |-> None, pid |-> None, lob |-> NoLobby,
     idx |-> 0, arg |-> None, loc |-> None, sent |-> <<>>, snap |-> <<>>]

Finished(t) == tasks[t].pc \in {"done", "raised"}

\* The frame of a handler that has returned is dropped when the event loop
\* runs its next step.
Sweep == [t \in Slots |-> IF Finished(t) THEN IdleTask ELSE tasks[t]]

HasFree == \E t \in Slots : tasks[t].pc \in {"idle", "done", "raised"}

FreeSlot == CHOOSE t \in Slots :
               /\ tasks[t].pc \in {"idle", "done", "raised"}
               /\ \A u \in Slots : u < t => tasks[u].pc \notin {"idle", "done", "raised"}

\* A handler stuck in a loop without an await keeps the event loop to itself.
Blocked == \E t \in Slots : tasks[t].pc = "hop_shuffle"

CanStart(sid) == sid \in connected /\ HasFree /\ ~Blocked

NewTask(op, sid, pid, lob, arg) ==
    [op |-> op, pc |-> "done", sid |-> sid, pid |-> pid, lob |-> lob,
     idx |-> 0, arg |-> arg, loc |-> None, sent |-> <<>>, snap |-> <<>>]

SetTask(t, rec) == tasks' = [Sweep EXCEPT ![t] = rec]

RosterIds(players) == [i \in 1..Len(players) |-> players[i].id]

SeqToSet(s) == {s[i] : i \in 1..Len(s)}

CountMsgs(sent, ev, to) == Cardinality({i \in 1..Len(sent) : sent[i].ev = ev /\ sent[i].to = to})

Init ==
    /\ lobbies = EmptyDict
    /\ heap = <<>>
    /\ player_to_lobby = EmptyDict
    /\ sid_to_id = EmptyDict
    /\ id_to_sid = EmptyDict
    /\ tasks = [t \in Slots |-> IdleTask]
    /\ connected = Sids
    /\ served \in Versions

\* ------------------------------------------------------------- assign_id
\* data is the identity the client supplies; None stands for a falsy
\* payload, for which uuid4 makes an identity that is bound nowhere yet.
FreshIds == {i \in ClientIds : i \notin DOMAIN id_to_sid
                               /\ i \notin DOMAIN player_to_lobby
                               /\ \A s \in DOMAIN sid_to_id : sid_to_id[s] # i}

AssignId(sid, data, fresh) ==
    /\ CanStart(sid)
    /\ data = None => fresh \in FreshIds
    /\ LET player_id == IF data # None THEN data ELSE fresh
       IN  /\ sid_to_id' = Put(sid_to_id, sid, player_id)
           /\ id_to_sid' = Put(id_to_sid, player_id, sid)
           /\ SetTask(FreeSlot,
                [NewTask("assign_id", sid, player_id, NoLobby, data)
                   EXCEPT !.sent = <<Msg("assign_id", player_id, sid)>>])
    /\ UNCHANGED <<served, lobbies, heap, player_to_lobby, connected>>

\* ---------------------------------------------------------- create_lobby
\* create_lobby while fewer than n Lobby objects have been made.
CreateLobbyWithin(sid, code, n) ==
    /\ CanStart(sid)
    /\ Len(heap) < n
    /\ CodeAccepted(code)
    /\ LET host_id == get_id_from_sid(sid)
           lobby == Lobby(host_id, code)
           ref == Len(heap) + 1
       IN  /\ heap' = Append(heap, lobby)
           /\ lobbies' = Put(lobbies, lobby.lobby_code, ref)
           /\ player_to_lobby' = Put(player_to_lobby, host_id, lobby.lobby_code)
           /\ SetTask(FreeSlot,
                [NewTask("create_lobby", sid, host_id, ref, None)
                   EXCEPT !.sent = <<Msg("lobby_created", lobby.lobby_code, sid)>>])
    /\ UNCHANGED <<served, sid_to_id, id_to_sid, connected>>

CreateLobby(sid, code) == CreateLobbyWithin(sid, code, MaxLobbies)

\* ------------------------------------------------------------ join_lobby
JoinData(username, lobby_code) == [username |-> username, lobby_code |-> lobby_code]

JoinError(sid, data, text) ==
    /\ SetTask(FreeSlot,
         [NewTask("join_lobby", sid, None, NoLobby, data)
            EXCEPT !.sent = <<Msg("error", text, sid)>>])
    /\ UNCHANGED <<served, lobbies, heap, player_to_lobby, sid_to_id, id_to_sid, connected>>

\* The first join_lobby returns without a word when the game has started.
JoinDropped(sid, data) ==
    /\ SetTask(FreeSlot, NewTask("join_lobby", sid, None, NoLobby, data))
    /\ UNCHANGED <<served, lobbies, heap, player_to_lobby, sid_to_id, id_to_sid, connected>>

\* The second join_lobby tests the size of the roster, the first does not.
IsFull(players) == served = "second" /\ Len(players) >= MaxPlayers

MayJoin(lobby) == lobby.current_state = WAITING

\* join_lobby up to its first suspension: the validation, the mutation and
\* the emit of joined_lobby in the on_join callback.
JoinLobby(sid, data) ==
    /\ CanStart(sid)
    /\ LET ref == Get(lobbies, data.lobby_code, NoLobby) IN
       IF data.username = None \/ data.lobby_code = NoCode
       THEN JoinError(sid, data, "Username and lobby_code are required!")
       ELSE IF ref = NoLobby
       THEN JoinError(sid, data, "Lobby not found!")
       ELSE IF ~MayJoin(heap[ref])
       THEN IF served = "first"
            THEN JoinDropped(sid, data)
            ELSE JoinError(sid, data, "Game is already started!")
       ELSE IF IsFull(heap[ref].players)
       THEN JoinError(sid, data, "Lobby is full!")
       ELSE LET player == Player(get_id_from_sid(sid), data.username) IN
            /\ player_to_lobby' = Put(player_to_lobby, player.id, heap[ref].lobby_code)
            /\ heap' = [heap EXCEPT ![ref].players = add_player(@, player)]
            /\ SetTask(FreeSlot,
                 [NewTask("join_lobby", sid, player.id, ref, data)
                    EXCEPT !.pc = "on_join",
                           !.sent = <<Msg("joined_lobby", heap[ref].lobby_code, sid)>>])
            /\ UNCHANGED <<served, lobbies, sid_to_id, id_to_sid, connected>>

\* on_join after the emit of joined_lobby: players_update to the host.
JoinResume(t) ==
    /\ ~Blocked
    /\ tasks[t].pc = "on_join"
    /\ LET lobby == heap[tasks[t].lob]
           players == PlayersPayload(lobby.players)
           host_sid == Get(id_to_sid, lobby.host_id, None)
       IN  SetTask(t, [tasks[t] EXCEPT
                 !.pc = "done",
                 !.sent = IF host_sid # None
                          THEN Append(@, Msg("players_update", players, host_sid))
                          ELSE @])
    /\ UNCHANGED <<served, lobbies, heap, player_to_lobby, sid_to_id, id_to_sid, connected>>

\* ------------------------------------------------------------ start_game
\* One step of `for p in lobby.players: await sio.emit(ev, data, get_sid_from_id(p.id))`
\* over the live roster, from list index idx (0-based count of entries
\* already visited).
BroadcastStep(t, rec, ev, data) ==
    LET players == heap'[rec.lob].players
    IN  IF rec.idx < Len(players)
        THEN SetTask(t, [rec EXCEPT
                 !.pc = "broadcast",
                 !.idx = @ + 1,
                 !.sent = Append(@, Msg(ev, data, get_sid_from_id(players[rec.idx + 1].id)))])
        ELSE SetTask(t, [rec EXCEPT !.pc = "done"])

NoLobbyReturn(op, sid, pid, arg) ==
    /\ SetTask(FreeSlot, NewTask(op, sid, pid, NoLobby, arg))
    /\ UNCHANGED <<served, lobbies, heap, player_to_lobby, sid_to_id, id_to_sid, connected>>

StartGame(sid) ==
    /\ CanStart(sid)
    /\ LET player_id == get_id_from_sid(sid)
           ref == get_lobby_and_player(player_id)[1]
       IN  IF ref = NoLobby
           THEN NoLobbyReturn("start_game", sid, player_id, None)
           ELSE /\ heap' = [heap EXCEPT ![ref].current_state = WRITING]
                /\ BroadcastStep(FreeSlot,
                     [NewTask("start_game", sid, player_id, ref, None)
                        EXCEPT !.snap = RosterIds(heap[ref].players)],
                     "game_state", WRITING)
                /\ UNCHANGED <<served, lobbies, player_to_lobby, sid_to_id, id_to_sid, connected>>

StartGameResume(t) ==
    /\ ~Blocked
    /\ tasks[t].pc = "broadcast"
    /\ tasks[t].op = "start_game"
    /\ heap' = heap
    /\ BroadcastStep(t, tasks[t], "game_state", WRITING)
    /\ UNCHANGED <<served, lobbies, player_to_lobby, sid_to_id, id_to_sid, connected>>

\* ----------------------------------------------------------- cancel_game
CancelGame(sid, data) ==
    /\ CanStart(sid)
    /\ LET player_id == get_id_from_sid(sid)
           ref == get_lobby_and_player(player_id)[1]
       IN  IF ref = NoLobby
           THEN NoLobbyReturn("cancel_game", sid, player_id, data)
           ELSE /\ heap' = heap
                /\ BroadcastStep(FreeSlot,
                     [NewTask("cancel_game", sid, player_id, ref, data)
                        EXCEPT !.snap = RosterIds(heap[ref].players)],
                     "cancel_game", data)
                /\ UNCHANGED <<served, lobbies, player_to_lobby, sid_to_id, id_to_sid, connected>>

CancelGameResume(t) ==
    /\ ~Blocked
    /\ tasks[t].pc = "broadcast"
    /\ tasks[t].op = "cancel_game"
    /\ heap' = heap
    /\ BroadcastStep(t, tasks[t], "cancel_game", tasks[t].arg)
    /\ UNCHANGED <<served, lobbies, player_to_lobby, sid_to_id, id_to_sid, connected>>

\* --------------------------------------------------------- submit_prompt
Truthy(text) == text # None /\ text # ""

AllWritten(players) == \A i \in 1..Len(players) : Truthy(players[i].prompt_written)

RECURSIVE NextOwnIndex(_, _, _)
NextOwnIndex(players, idx, player_id) ==
    IF idx >= Len(players) THEN 0
    ELSE IF players[idx + 1].id = player_id THEN idx + 1
    ELSE NextOwnIndex(players, idx + 1, player_id)

\* submit_prompt from list index rec.idx of the live roster to its next
\* emit: the next entry of the sender gets the prompt, or the loop ends and
\* finish_writing goes to the host when every entry has a prompt.
SubmitStep(t, rec) ==
    LET lobby == heap[rec.lob]
        n == NextOwnIndex(lobby.players, rec.idx, rec.pid)
    IN  IF n # 0
        THEN /\ heap' = [heap EXCEPT ![rec.lob].players[n].prompt_written = rec.arg]
             /\ SetTask(t, [rec EXCEPT
                    !.pc = "submit_loop", !.idx = n,
                    !.sent = Append(@, Msg("writing_submitted", None, get_sid_from_id(rec.pid)))])
        ELSE /\ heap' = heap
             /\ SetTask(t, [rec EXCEPT
                    !.pc = "done",
                    !.sent = IF AllWritten(lobby.players)
                             THEN Append(@, Msg("finish_writing", Len(lobby.players),
                                                get_sid_from_id(lobby.host_id)))
                             ELSE @])

SubmitPrompt(sid, prompt) ==
    /\ CanStart(sid)
    /\ LET player_id == get_id_from_sid(sid)
           ref == get_lobby_and_player(player_id)[1]
       IN  IF ref = NoLobby
           THEN NoLobbyReturn("submit_prompt", sid, player_id, prompt)
           ELSE /\ SubmitStep(FreeSlot, NewTask("submit_prompt", sid, player_id, ref, prompt))
                /\ UNCHANGED <<served, lobbies, player_to_lobby, sid_to_id, id_to_sid, connected>>

SubmitPromptResume(t) ==
    /\ ~Blocked
    /\ tasks[t].pc = "submit_loop"
    /\ SubmitStep(t, tasks[t])
    /\ UNCHANGED <<served, lobbies, player_to_lobby, sid_to_id, id_to_sid, connected>>

\* ------------------------------------------------------ hand_out_prompts
\* The pool entry's id stands for its uuid4: the roster position it was
\* made from.
PromptPool(players) ==
    [i \in 1..Len(players) |->
        [id |-> i, text |-> players[i].prompt_written, owner |-> players[i].id]]

\* The outcomes of random.shuffle on a list of n entries.
Perms(n) == {f \in [1..n -> 1..n] : \A i, j \in 1..n : f[i] = f[j] => i = j}

Shuffled(pool, f) == [i \in 1..Len(pool) |-> pool[f[i]]]

\* The test that ends the shuffle loop.
NoFixedPoint(players, pool) ==
    \A i \in 1..Len(players) : players[i].id # pool[i].owner

HandOutPrompts(sid) ==
    /\ CanStart(sid)
    /\ LET player_id == get_id_from_sid(sid)
           ref == get_lobby_and_player(player_id)[1]
       IN  IF ref = NoLobby
           THEN NoLobbyReturn("hand_out_prompts", sid, player_id, None)
           ELSE /\ SetTask(FreeSlot,
                     [NewTask("hand_out_prompts", sid, player_id, ref, None)
                        EXCEPT !.pc = "hop_shuffle",
                               !.snap = RosterIds(heap[ref].players),
                               !.loc = PromptPool(heap[ref].players)])
                /\ UNCHANGED <<served, lobbies, heap, player_to_lobby, sid_to_id, id_to_sid, connected>>

\* The loop over enumerate(players) from list index rec.idx: the next give,
\* an IndexError past the end of the pool, or start_viewing after the loop.
GiveStep(t, rec) ==
    LET players == heap[rec.lob].players
        i == rec.idx + 1
    IN  IF rec.idx >= Len(players)
        THEN /\ heap' = heap
             /\ SetTask(t, [rec EXCEPT
                    !.pc = "done",
                    !.sent = Append(@, Msg("start_viewing", "", rec.sid))])
        ELSE IF i > Len(rec.loc)
        THEN /\ heap' = heap
             /\ SetTask(t, [rec EXCEPT !.pc = "raised"])
        ELSE /\ heap' = [heap EXCEPT ![rec.lob].players[i].prompt_given = rec.loc[i].text,
                                     ![rec.lob].players[i].given_owner = rec.loc[i].owner]
             /\ SetTask(t, [rec EXCEPT
                    !.pc = "hop_give", !.idx = i,
                    !.sent = Append(@, Msg("give_prompt", rec.loc[i].text,
                                           get_sid_from_id(players[i].id)))])

\* One pass of `while True` whose shuffle leaves a fixed point.  The order
\* a failed pass leaves in the pool is not kept: every order is an outcome
\* of the next shuffle whatever the order before it.
HopShuffleRetry(t) ==
    /\ tasks[t].pc = "hop_shuffle"
    /\ \E f \in Perms(Len(tasks[t].loc)) :
          ~NoFixedPoint(heap[tasks[t].lob].players, Shuffled(tasks[t].loc, f))
    /\ tasks' = [Sweep EXCEPT ![t] = tasks[t]]
    /\ UNCHANGED <<served, lobbies, heap, player_to_lobby, sid_to_id, id_to_sid, connected>>

\* Some outcome of the shuffle ends the loop.
CanBreak(t) ==
    \E f \in Perms(Len(tasks[t].loc)) :
        NoFixedPoint(heap[tasks[t].lob].players, Shuffled(tasks[t].loc, f))

\* The pass whose shuffle passes the test: break, and run on to the first
\* give_prompt.
HopShuffleBreak(t) ==
    /\ tasks[t].pc = "hop_shuffle"
    /\ \E f \in Perms(Len(tasks[t].loc)) :
          LET pool == Shuffled(tasks[t].loc, f) IN
          /\ NoFixedPoint(heap[tasks[t].lob].players, pool)
          /\ GiveStep(t, [tasks[t] EXCEPT !.loc = pool])
    /\ UNCHANGED <<served, lobbies, player_to_lobby, sid_to_id, id_to_sid, connected>>

HopGiveResume(t) ==
    /\ ~Blocked
    /\ tasks[t].pc = "hop_give"
    /\ GiveStep(t, tasks[t])
    /\ UNCHANGED <<served, lobbies, player_to_lobby, sid_to_id, id_to_sid, connected>>

\* --------------------------------------------------------- start_drawing
\* start_drawing up to its first suspension: the emit of drawing_started to
\* the sender.  lobby.current_state is not assigned.
StartDrawing(sid) ==
    /\ CanStart(sid)
    /\ LET player_id == get_id_from_sid(sid)
           ref == get_lobby_and_player(player_id)[1]
       IN  IF ref = NoLobby
           THEN NoLobbyReturn("start_drawing", sid, player_id, None)
           ELSE /\ SetTask(FreeSlot,
                     [NewTask("start_drawing", sid, player_id, ref, None)
                        EXCEPT !.pc = "broadcast",
                               !.snap = RosterIds(heap[ref].players),
                               !.sent = <<Msg("drawing_started", DRAWING, sid)>>])
                /\ UNCHANGED <<served, lobbies, heap, player_to_lobby, sid_to_id, id_to_sid, connected>>

StartDrawingResume(t) ==
    /\ ~Blocked
    /\ tasks[t].pc = "broadcast"
    /\ tasks[t].op = "start_drawing"
    /\ heap' = heap
    /\ BroadcastStep(t, tasks[t], "game_state", DRAWING)
    /\ UNCHANGED <<served, lobbies, player_to_lobby, sid_to_id, id_to_sid, connected>>

\* --------------------------------------------------------- set_presenter
PresenterData(id) == [id |-> id]

\* set_presenter from list index rec.idx of the live roster: the entry's
\* vote flag is reset and its event emitted, one entry per suspension.
PresenterStep(t, rec) ==
    LET players == heap[rec.lob].players
        i == rec.idx + 1
    IN  IF rec.idx >= Len(players)
        THEN /\ heap' = [heap EXCEPT
                    ![rec.lob].round_voters = IF rec.idx = 0 THEN {} ELSE @,
                    ![rec.lob].recent_voters = {}]
             /\ SetTask(t, [rec EXCEPT !.pc = "done"])
        ELSE /\ heap' = [heap EXCEPT
                    ![rec.lob].players[i].voted_already = FALSE,
                    ![rec.lob].round_voters = IF rec.idx = 0 THEN {} ELSE @,
                    ![rec.lob].recent_voters = IF rec.idx = 0 THEN {} ELSE @]
             /\ SetTask(t, [rec EXCEPT
                    !.pc = "presenter_loop", !.idx = i,
                    !.sent = Append(@, Msg(IF rec.arg.id = players[i].id
                                           THEN "you_are_presenting"
                                           ELSE "current_presenter",
                                           rec.arg, get_sid_from_id(players[i].id)))])

SetPresenter(sid, data) ==
    /\ CanStart(sid)
    /\ LET player_id == get_id_from_sid(sid)
           ref == get_lobby_and_player(player_id)[1]
       IN  IF ref = NoLobby
           THEN NoLobbyReturn("set_presenter", sid, player_id, data)
           ELSE /\ PresenterStep(FreeSlot,
                     [NewTask("set_presenter", sid, player_id, ref, data)
                        EXCEPT !.snap = RosterIds(heap[ref].players)])
                /\ UNCHANGED <<served, lobbies, player_to_lobby, sid_to_id, id_to_sid, connected>>

SetPresenterResume(t) ==
    /\ ~Blocked
    /\ tasks[t].pc = "presenter_loop"
    /\ PresenterStep(t, tasks[t])
    /\ UNCHANGED <<served, lobbies, player_to_lobby, sid_to_id, id_to_sid, connected>>

\* ----------------------------------------------------- vote_presentation
VoteData(id, score) == [id |-> id, score |-> score]

\* The test of the outer loop of vote_presentation on one roster entry.
VoteAccepted(p, player_id, data) ==
    p.id = player_id /\ data.id # p.id /\ ~p.voted_already

VoterIndex(players, player_id, data) ==
    IF \E i \in 1..Len(players) : VoteAccepted(players[i], player_id, data)
    THEN CHOOSE i \in 1..Len(players) :
            /\ VoteAccepted(players[i], player_id, data)
            /\ \A j \in 1..(i - 1) : ~VoteAccepted(players[j], player_id, data)
    ELSE 0

\* The roster after vote_presentation's loops.
Voted(players, player_id, data) ==
    LET v == VoterIndex(players, player_id, data)
        flagged == [players EXCEPT ![v].voted_already = TRUE]
        target == FirstWithId(flagged, data.id)
    IN  IF v = 0 THEN players
        ELSE IF target = 0 THEN flagged
        ELSE [flagged EXCEPT ![target].voting_score = @ + data.score]

VotePresentation(sid, data) ==
    /\ CanStart(sid)
    /\ LET player_id == get_id_from_sid(sid)
           ref == get_lobby_and_player(player_id)[1]
       IN  IF ref = NoLobby
           THEN NoLobbyReturn("vote_presentation", sid, player_id, data)
           ELSE /\ heap' = [heap EXCEPT
                      ![ref].players = Voted(@, player_id, data),
                      ![ref].round_voters =
                          IF VoterIndex(heap[ref].players, player_id, data) # 0
                          THEN @ \cup {player_id} ELSE @,
                      ![ref].recent_voters =
                          IF VoterIndex(heap[ref].players, player_id, data) # 0
                          THEN @ \cup {player_id} ELSE @]
                /\ SetTask(FreeSlot,
                     [NewTask("vote_presentation", sid, player_id, ref, data)
                        EXCEPT !.sent = <<Msg("voted", None, sid)>>])
                /\ UNCHANGED <<served, lobbies, player_to_lobby, sid_to_id, id_to_sid, connected>>

\* ------------------------------------------------------- done_presenting
PlayerStats(players) ==
    [i \in 1..Len(players) |->
        [username |-> players[i].username, score |-> players[i].voting_score]]

\* The coroutine that sio.emit("game_end", ...) returns is not awaited, so
\* it never runs: player_stats is built (kept in loc) and nothing is sent.
\* Only the second half defines done_presenting; the first server has no
\* handler for the event and ignores it.
GameEndSent(player_stats, sid) == <<>>

DonePresenting(sid) ==
    /\ served = "second"
    /\ CanStart(sid)
    /\ LET player_id == get_id_from_sid(sid)
           ref == get_lobby_and_player(player_id)[1]
       IN  IF ref = NoLobby
           THEN NoLobbyReturn("done_presenting", sid, player_id, None)
           ELSE /\ SetTask(FreeSlot,
                     [NewTask("done_presenting", sid, player_id, ref, None)
                        EXCEPT !.loc = PlayerStats(heap[ref].players),
                               !.snap = RosterIds(heap[ref].players),
                               !.sent = GameEndSent(PlayerStats(heap[ref].players), sid)])
                /\ UNCHANGED <<served, lobbies, heap, player_to_lobby, sid_to_id, id_to_sid, connected>>

\* --------------------------------------------------------- send_reaction
\* The attributes of a Python int that are no methods; a lobby code has
\* these and no other data attribute.
IntAttributes == {"real", "imag", "numerator", "denominator"}

HasAttr(code, name) == code[1] = "int" /\ name \in IntAttributes

\* The payload of the first handler is the reaction as it was received: a
\* payload with neither an emoji nor a username key.
BareReaction(reaction) == [value |-> reaction]

\* The second handler names the second result of get_lobby_and_player, the
\* lobby code, `player` and reads its username: an AttributeError before
\* the emit.
SendReaction(sid, reaction) ==
    /\ CanStart(sid)
    /\ LET player_id == get_id_from_sid(sid)
           found == get_lobby_and_player(player_id)
           ref == found[1]
           player == found[2]
       IN  IF ref = NoLobby
           THEN NoLobbyReturn("send_reaction", sid, player_id, reaction)
           ELSE /\ SetTask(FreeSlot,
                     IF served = "first"
                     THEN [NewTask("send_reaction", sid, player_id, ref, reaction)
                             EXCEPT !.sent = <<Msg("reaction", BareReaction(reaction),
                                                   get_sid_from_id(heap[ref].host_id))>>]
                     ELSE IF HasAttr(player, "username")
                     THEN [NewTask("send_reaction", sid, player_id, ref, reaction)
                             EXCEPT !.sent = <<Msg("reaction",
                                                   [emoji |-> reaction, username |-> player],
                                                   get_sid_from_id(heap[ref].host_id))>>]
                     ELSE [NewTask("send_reaction", sid, player_id, ref, reaction)
                             EXCEPT !.pc = "raised"])
                /\ UNCHANGED <<served, lobbies, heap, player_to_lobby, sid_to_id, id_to_sid, connected>>

\* ------------------------------------------------------------ disconnect
\* The host branch's loop over the live roster, run from list index idx up
\* to its next emit (to # None) or to its end (fin).
RECURSIVE RunHostLoop(_, _, _, _, _, _)
RunHostLoop(players, idx, player_id, i2s, s2i, p2l) ==
    IF idx >= Len(players)
    THEN [fin |-> TRUE, idx |-> idx, to |-> None, i2s |-> i2s, s2i |-> s2i, p2l |-> p2l]
    ELSE LET p == players[idx + 1] IN
         IF p.id = player_id
         THEN RunHostLoop(players, idx + 1, player_id, i2s, s2i, p2l)
         ELSE LET sid_ == Get(i2s, p.id, None)
                  i2s_ == Pop(i2s, p.id)
                  p2l_ == Pop(p2l, p.id)
                  s2i_ == Pop(s2i, sid_)
              IN  IF sid_ # None
                  THEN [fin |-> FALSE, idx |-> idx + 1, to |-> sid_,
                        i2s |-> i2s_, s2i |-> s2i_, p2l |-> p2l_]
                  ELSE RunHostLoop(players, idx + 1, player_id, i2s_, s2i_, p2l_)

HostDisconnectedText == "The host has disconnected from the game!"

\* The host branch from list index rec.idx: maps as left by the loop, then
\* either the next emit or `del lobbies[lobby_code]`.
HostTeardownStep(t, rec, i2s, s2i, p2l) ==
    LET r == RunHostLoop(heap[rec.lob].players, rec.idx, rec.pid, i2s, s2i, p2l)
    IN  /\ id_to_sid' = r.i2s
        /\ sid_to_id' = r.s2i
        /\ player_to_lobby' = r.p2l
        /\ IF ~r.fin
           THEN /\ SetTask(t, [rec EXCEPT
                       !.pc = "host_loop", !.idx = r.idx,
                       !.sent = Append(@, Msg("disconnected", HostDisconnectedText, r.to))])
                /\ lobbies' = lobbies
           ELSE IF rec.arg \in DOMAIN lobbies
           THEN /\ lobbies' = Pop(lobbies, rec.arg)
                /\ SetTask(t, [rec EXCEPT !.pc = "done", !.idx = r.idx])
           ELSE /\ lobbies' = lobbies
                /\ SetTask(t, [rec EXCEPT !.pc = "raised", !.idx = r.idx])

\* The non-host branch's second loop: the next list index at or after idx
\* whose player has a bound sid other than host_sid; 0 when there is none.
RECURSIVE NextFanIndex(_, _, _, _)
NextFanIndex(players, idx, i2s, host_sid) ==
    IF idx >= Len(players) THEN 0
    ELSE LET sid_ == Get(i2s, players[idx + 1].id, None) IN
         IF sid_ # None /\ sid_ # host_sid THEN idx + 1
         ELSE NextFanIndex(players, idx + 1, i2s, host_sid)

FanStep(t, rec, players_live, i2s) ==
    LET n == NextFanIndex(players_live, rec.idx, i2s, rec.loc.host_sid)
    IN  IF n = 0
        THEN SetTask(t, [rec EXCEPT !.pc = "done"])
        ELSE SetTask(t, [rec EXCEPT
                 !.pc = "fan_loop", !.idx = n,
                 !.sent = Append(@, Msg("players_update", rec.loc.players,
                                        i2s[players_live[n].id]))])

IsHost(lobby, player_id) == lobby.host_id = player_id

Disconnect(sid) ==
    /\ CanStart(sid)
    /\ connected' = connected \ {sid}
    /\ UNCHANGED served
    /\ LET player_id == Get(sid_to_id, sid, None)
           s2i == Pop(sid_to_id, sid)
           found == get_lobby_and_player(player_id)
           ref == found[1]
           lobby_code == found[2]
           i2s == Pop(id_to_sid, player_id)
           p2l == Pop(player_to_lobby, player_id)
       IN  IF player_id = None
           THEN /\ SetTask(FreeSlot, NewTask("disconnect", sid, None, NoLobby, NoCode))
                /\ UNCHANGED <<lobbies, heap, player_to_lobby, sid_to_id, id_to_sid>>
           ELSE IF ref = NoLobby
           THEN /\ sid_to_id' = s2i
                /\ id_to_sid' = i2s
                /\ player_to_lobby' = p2l
                /\ SetTask(FreeSlot, NewTask("disconnect", sid, player_id, NoLobby, lobby_code))
                /\ UNCHANGED <<lobbies, heap>>
           ELSE IF IsHost(heap[ref], player_id)
           THEN /\ HostTeardownStep(FreeSlot,
                     [NewTask("disconnect", sid, player_id, ref, lobby_code)
                        EXCEPT !.snap = RosterIds(heap[ref].players),
                               !.loc = [conn |-> [i \in SeqToSet(RosterIds(heap[ref].players))
                                                    |-> get_sid_from_id(i)]]],
                     i2s, s2i, p2l)
                /\ heap' = heap
           ELSE LET roster == remove_player(heap[ref].players, player_id)
                    host_sid == Get(i2s, heap[ref].host_id, None)
                    rec == [NewTask("disconnect", sid, player_id, ref, lobby_code)
                              EXCEPT !.snap = RosterIds(heap[ref].players),
                                     !.loc = [players |-> PlayersPayload(roster),
                                              host_sid |-> host_sid]]
                IN  /\ sid_to_id' = s2i
                    /\ id_to_sid' = i2s
                    /\ player_to_lobby' = p2l
                    /\ heap' = [heap EXCEPT ![ref].players = roster]
                    /\ lobbies' = lobbies
                    /\ IF host_sid # None
                       THEN SetTask(FreeSlot, [rec EXCEPT
                                !.pc = "fan_loop",
                                !.sent = <<Msg("players_update", rec.loc.players, host_sid)>>])
                       ELSE FanStep(FreeSlot, rec, roster, i2s)

DisconnectHostResume(t) ==
    /\ ~Blocked
    /\ tasks[t].pc = "host_loop"
    /\ HostTeardownStep(t, tasks[t], id_to_sid, sid_to_id, player_to_lobby)
    /\ UNCHANGED <<served, heap, connected>>

DisconnectFanResume(t) ==
    /\ ~Blocked
    /\ tasks[t].pc = "fan_loop"
    /\ FanStep(t, tasks[t], heap[tasks[t].lob].players, id_to_sid)
    /\ UNCHANGED <<served, lobbies, heap, player_to_lobby, sid_to_id, id_to_sid, connected>>

\* ---------------------------------------------------------- specifications
JoinInputs == {JoinData("Ann", IntKey(c)) : c \in Codes}

\* The model's bounds on the inputs: a connection that is bound sends no
\* further assign_id, and a roster is not grown past n entries.
Unbound(s) == s \notin DOMAIN sid_to_id

LobbyAt(data) == heap[lobbies[data.lobby_code]]

RosterBelow(data, n) ==
    (data.lobby_code \in DOMAIN lobbies /\ MayJoin(heap[lobbies[data.lobby_code]]))
        => Len(heap[lobbies[data.lobby_code]].players) < n

\* The lobby specification: connection s1 creates lobbies, s2 and s3 join;
\* s1 and s2 may bind the same identity (a reconnect), s3 another one.
LobbyAssigns == {<<"s1", "a">>, <<"s2", "a">>, <<"s3", "b">>}
LobbyCreators == {"s1"}
LobbyJoiners == {"s2", "s3"}

NextLobby ==
    \/ \E x \in LobbyAssigns : Unbound(x[1]) /\ AssignId(x[1], x[2], x[2])
    \/ \E s \in LobbyCreators, c \in Codes : CreateLobby(s, c)
    \/ \E s \in LobbyJoiners, d \in JoinInputs : RosterBelow(d, MaxRoster) /\ JoinLobby(s, d)
    \/ \E t \in Slots : JoinResume(t)
    \/ \E s \in Sids : Disconnect(s)
    \/ \E t \in Slots : DisconnectHostResume(t)
    \/ \E t \in Slots : DisconnectFanResume(t)
    \/ \E s \in Sids : StartGame(s)
    \/ \E t \in Slots : StartGameResume(t)

SpecLobby == Init /\ [][NextLobby]_vars

\* The joining specification: s1 creates the lobby, s2 and s3 join, and the
\* roster grows as far as join_lobby lets it, to MaxJoinRoster at most.
NextJoin ==
    \/ \E s \in LobbyCreators, c \in Codes : CreateLobby(s, c)
    \/ \E s \in LobbyJoiners, d \in JoinInputs : RosterBelow(d, MaxJoinRoster) /\ JoinLobby(s, d)
    \/ \E t \in Slots : JoinResume(t)

SpecJoin == Init /\ [][NextJoin]_vars

\* The prompt specification: s1 creates the lobby and hands the prompts
\* out, s2 and s3 join and submit, s2 may bind an identity and may leave.
PromptAssigns == {<<"s2", "a">>}
PromptInputs == {<<"s2", "cat">>, <<"s3", "dog">>}
PromptLeavers == {"s2"}

NextPrompts ==
    \/ \E x \in PromptAssigns : Unbound(x[1]) /\ AssignId(x[1], x[2], x[2])
    \/ \E s \in LobbyCreators, c \in Codes : CreateLobby(s, c)
    \/ \E s \in LobbyJoiners, d \in JoinInputs :
          RosterBelow(d, MaxPromptRoster) /\ JoinLobby(s, d)
    \/ \E t \in Slots : JoinResume(t)
    \/ \E x \in PromptInputs : SubmitPrompt(x[1], x[2])
    \/ \E t \in Slots : SubmitPromptResume(t)
    \/ \E s \in LobbyCreators : HandOutPrompts(s)
    \/ \E t \in Slots : HopShuffleRetry(t)
    \/ \E t \in Slots : HopShuffleBreak(t)
    \/ \E t \in Slots : HopGiveResume(t)
    \/ \E s \in PromptLeavers : Disconnect(s)

SpecPrompts == Init /\ [][NextPrompts]_vars

\* The voting specification: s1 creates the lobby and sets the presenter,
\* s2 and s3 join once each and vote for a roster member, each other or
\* themselves.
NotMember(s, data) ==
    data.lobby_code \in DOMAIN lobbies =>
        \A i \in 1..Len(LobbyAt(data).players) : LobbyAt(data).players[i].id # get_id_from_sid(s)

TotalScore == LET RECURSIVE Sum(_, _)
                  Sum(players, i) == IF i = 0 THEN 0
                                     ELSE players[i].voting_score + Sum(players, i - 1)
              IN  IF heap = <<>> THEN 0 ELSE Sum(heap[1].players, Len(heap[1].players))

\* A connection that bound no identity is known by its sid.
VoteTargets == LobbyJoiners

OnRoster(id) == heap # <<>> /\ id \in SeqToSet(RosterIds(heap[1].players))

VoteInputs == {VoteData(id, 1) : id \in VoteTargets}

NextVote ==
    \/ \E s \in LobbyCreators, c \in Codes : CreateLobby(s, c)
    \/ \E s \in LobbyJoiners, d \in JoinInputs : NotMember(s, d) /\ JoinLobby(s, d)
    \/ \E t \in Slots : JoinResume(t)
    \/ \E s \in LobbyCreators, id \in VoteTargets : SetPresenter(s, PresenterData(id))
    \/ \E t \in Slots : SetPresenterResume(t)
    \/ \E s \in LobbyJoiners, d \in VoteInputs :
          OnRoster(d.id) /\ TotalScore < MaxScore /\ VotePresentation(s, d)

SpecVote == Init /\ [][NextVote]_vars

\* The scenario specification: H (s1) creates the lobby, P (s2) joins as
\* "Ann", H starts the game, H submits "cat" and P "dog", H hands the
\* prompts out and ends the presentation, each event sent when the handler
\* of the one before it has returned.  Before the scenario H and P may bind
\* an identity, and H may join its own lobby before P does.
LastDone(op, sid) ==
    \E t \in Slots : tasks[t].pc = "done" /\ tasks[t].op = op /\ tasks[t].sid = sid

ScenarioAssigns == {<<"s1", "a">>, <<"s2", "b">>}

LobbyOpen == LastDone("create_lobby", "s1") \/ LastDone("join_lobby", "s1")

NextScenario ==
    \/ \E x \in ScenarioAssigns : heap = <<>> /\ Unbound(x[1]) /\ AssignId(x[1], x[2], x[2])
    \/ \E c \in Codes : CreateLobby("s1", c)
    \/ \E d \in JoinInputs : LastDone("create_lobby", "s1") /\ JoinLobby("s1", d)
    \/ \E d \in JoinInputs : LobbyOpen /\ JoinLobby("s2", d)
    \/ \E t \in Slots : JoinResume(t)
    \/ LastDone("join_lobby", "s2") /\ StartGame("s1")
    \/ \E t \in Slots : StartGameResume(t)
    \/ LastDone("start_game", "s1") /\ SubmitPrompt("s1", "cat")
    \/ LastDone("submit_prompt", "s1") /\ SubmitPrompt("s2", "dog")
    \/ \E t \in Slots : SubmitPromptResume(t)
    \/ LastDone("submit_prompt", "s2") /\ HandOutPrompts("s1")
    \/ \E t \in Slots : HopShuffleRetry(t)
    \/ \E t \in Slots : HopShuffleBreak(t)
    \/ \E t \in Slots : HopGiveResume(t)
    \/ LastDone("hand_out_prompts", "s1") /\ DonePresenting("s1")

SpecScenario == Init /\ [][NextScenario]_vars

\* The registry specification: s1 and s2 create lobbies, as many as
\* MaxRegistry in all, s3 joins, s1 and s3 may bind an identity and s1 may leave.
RegistryAssigns == {<<"s1", "a">>, <<"s3", "b">>}
RegistryCreators == {"s1", "s2"}
RegistryJoiners == {"s3"}
RegistryLeavers == {"s1"}

NextRegistry ==
    \/ \E x \in RegistryAssigns : Unbound(x[1]) /\ heap = <<>> /\ AssignId(x[1], x[2], x[2])
    \/ \E s \in RegistryCreators, c \in Codes : CreateLobbyWithin(s, c, MaxRegistry)
    \/ \E s \in RegistryJoiners, d \in JoinInputs : RosterBelow(d, MaxRoster) /\ JoinLobby(s, d)
    \/ \E t \in Slots : JoinResume(t)
    \/ \E s \in RegistryLeavers : Disconnect(s)
    \/ \E t \in Slots : DisconnectHostResume(t)

SpecRegistry == Init /\ [][NextRegistry]_vars

\* The game-end specification: s1 creates the lobby, s2 and s3 join once
\* each and vote for a roster member, and any of them ends the presentation.
NextGameEnd ==
    \/ \E s \in LobbyCreators, c \in Codes : CreateLobby(s, c)
    \/ \E s \in LobbyJoiners, d \in JoinInputs : NotMember(s, d) /\ JoinLobby(s, d)
    \/ \E t \in Slots : JoinResume(t)
    \/ \E s \in LobbyJoiners, d \in VoteInputs :
          OnRoster(d.id) /\ TotalScore < MaxScore /\ VotePresentation(s, d)
    \/ \E s \in LobbyCreators \cup LobbyJoiners : DonePresenting(s)

SpecGameEnd == Init /\ [][NextGameEnd]_vars

\* The phase specification: s1 creates the lobby and sends the host events
\* of a game, each when the handler of the one before it has returned; s2
\* and s3 send join_lobby at any time until they are on the roster.
PhaseHost == "s1"

GameJoined == LastDone("create_lobby", PhaseHost) \/ LastDone("join_lobby", "s2")
                \/ LastDone("join_lobby", "s3")

NextPhases ==
    \/ \E c \in Codes : CreateLobby(PhaseHost, c)
    \/ \E s \in LobbyJoiners, d \in JoinInputs : NotMember(s, d) /\ JoinLobby(s, d)
    \/ \E t \in Slots : JoinResume(t)
    \/ GameJoined /\ StartGame(PhaseHost)
    \/ \E t \in Slots : StartGameResume(t)
    \/ LastDone("start_game", PhaseHost) /\ HandOutPrompts(PhaseHost)
    \/ \E t \in Slots : HopShuffleRetry(t)
    \/ \E t \in Slots : HopShuffleBreak(t)
    \/ \E t \in Slots : HopGiveResume(t)
    \/ LastDone("hand_out_prompts", PhaseHost) /\ StartDrawing(PhaseHost)
    \/ \E t \in Slots : StartDrawingResume(t)
    \/ LastDone("start_drawing", PhaseHost) /\ DonePresenting(PhaseHost)

SpecPhases == Init /\ [][NextPhases]_vars

\* The broadcast specification: s1 creates the lobby and starts or cancels
\* the game, s2 and s3 join once each and may leave; s2 and s3 may bind an
\* identity before the lobby is made.
BroadcastAssigns == {<<"s2", "a">>, <<"s3", "b">>}
CancelInputs == {"bye"}

NextBroadcast ==
    \/ \E x \in BroadcastAssigns : heap = <<>> /\ Unbound(x[1]) /\ AssignId(x[1], x[2], x[2])
    \/ \E s \in LobbyCreators, c \in Codes : CreateLobby(s, c)
    \/ \E s \in LobbyJoiners, d \in JoinInputs : NotMember(s, d) /\ JoinLobby(s, d)
    \/ \E t \in Slots : JoinResume(t)
    \/ \E s \in LobbyCreators : StartGame(s)
    \/ \E t \in Slots : StartGameResume(t)
    \/ \E s \in LobbyCreators, d \in CancelInputs : CancelGame(s, d)
    \/ \E t \in Slots : CancelGameResume(t)
    \/ \E s \in LobbyJoiners : Disconnect(s)
    \/ \E t \in Slots : DisconnectFanResume(t)

SpecBroadcast == Init /\ [][NextBroadcast]_vars

\* The reaction specification: s1 creates the lobby, s2 and s3 join once
\* each, and any of them reacts; s1 and s2 may bind an identity before the
\* lobby is made.
ReactionAssigns == {<<"s1", "a">>, <<"s2", "b">>}
Reactions == {"clap", "wow"}

NextReaction ==
    \/ \E x \in ReactionAssigns : heap = <<>> /\ Unbound(x[1]) /\ AssignId(x[1], x[2], x[2])
    \/ \E s \in LobbyCreators, c \in Codes : CreateLobby(s, c)
    \/ \E s \in LobbyJoiners, d \in JoinInputs : NotMember(s, d) /\ JoinLobby(s, d)
    \/ \E t \in Slots : JoinResume(t)
    \/ \E s \in LobbyCreators \cup LobbyJoiners, r \in Reactions : SendReaction(s, r)

SpecReaction == Init /\ [][NextReaction]_vars

\* ------------------------------------------------------------------ claims
HandOutDone(t) ==
    /\ tasks[t].op = "hand_out_prompts"
    /\ tasks[t].pc = "done"
    /\ tasks[t].lob # NoLobby

InShuffleLoop(t) == tasks[t].pc = "hop_shuffle"

CountGivenFrom(players, id) ==
    Cardinality({i \in 1..Len(players) : players[i].given_owner = id})

CountWithId(players, id) ==
    Cardinality({i \in 1..Len(players) : players[i].id = id})

\* C1: when hand_out_prompts has returned, the prompts given to the roster
\* are a permutation of the prompts its players wrote (every roster player's
\* prompt went to exactly one roster player), and no player was given a
\* prompt of its own.
C1_HandOutIsDerangement ==
    \A t \in Slots :
        HandOutDone(t) =>
            LET players == heap[tasks[t].lob].players IN
            /\ \A i \in 1..Len(players) :
                  CountGivenFrom(players, players[i].id) = CountWithId(players, players[i].id)
            /\ \A i \in 1..Len(players) : players[i].given_owner # players[i].id

\* C2: hand_out_prompts on a roster of one player does not stay in its
\* shuffle loop: whenever it is in the loop some shuffle lets it leave.
C2_SinglePlayerRefused ==
    \A t \in Slots :
        (InShuffleLoop(t) /\ Len(heap[tasks[t].lob].players) = 1) => CanBreak(t)

\* C3: hand_out_prompts on a roster of two or more entries can always leave
\* its shuffle loop, so that it ends when the shuffle outcomes are fair.
C3_ShuffleTerminates ==
    \A t \in Slots :
        (InShuffleLoop(t) /\ Len(heap[tasks[t].lob].players) >= 2) => CanBreak(t)

ClosedIdentity(t) == IF tasks[t].pid = None THEN tasks[t].sid ELSE tasks[t].pid

HostTeardownDone(t) ==
    /\ tasks[t].op = "disconnect"
    /\ tasks[t].pc = "done"
    /\ tasks[t].lob # NoLobby
    /\ IsHost(heap[tasks[t].lob], tasks[t].pid)

\* C6: once the disconnect handler of a connection has finished, no lobby
\* created by that connection's identity is left in the lobby registry.
C6_HostCloseRemovesLobby ==
    \A t \in Slots :
        (tasks[t].op = "disconnect" /\ Finished(t)) =>
            \A k \in DOMAIN lobbies : heap[lobbies[k]].host_id # ClosedIdentity(t)

\* C7: when the host's disconnect handler has finished, every other identity
\* that was in the roster when it began has been sent "disconnected" exactly
\* once, on the connection the identity resolved to at that moment.
C7_MembersNotifiedOnce ==
    \A t \in Slots :
        HostTeardownDone(t) =>
            \A m \in SeqToSet(tasks[t].snap) \ {tasks[t].pid} :
                CountMsgs(tasks[t].sent, "disconnected", tasks[t].loc.conn[m]) = 1

\* C8: when the host's disconnect handler has finished, neither the host nor
\* any identity of the roster it tore down has a player_to_lobby entry that
\* names the destroyed lobby's code.
C8_NoStaleReverseIndex ==
    \A t \in Slots :
        HostTeardownDone(t) =>
            \A m \in SeqToSet(tasks[t].snap) \cup SeqToSet(RosterIds(heap[tasks[t].lob].players))
                       \cup {tasks[t].pid} :
                Get(player_to_lobby, m, NoCode) # tasks[t].arg

LobbyOf(data) == heap[lobbies[data.lobby_code]]

JoinRejected(sid, text) ==
    /\ heap' = heap
    /\ player_to_lobby' = player_to_lobby
    /\ \E t \in Slots : /\ tasks'[t].op = "join_lobby"
                        /\ tasks'[t].sid = sid
                        /\ tasks'[t].pc = "done"
                        /\ tasks'[t].sent = <<Msg("error", text, sid)>>

RosterWithinCapacity == \A i \in 1..Len(heap) : Len(heap[i].players) <= MaxPlayers

FullJoinRejected ==
    \A s \in Sids, d \in JoinInputs :
        (/\ JoinLobby(s, d)
         /\ d.lobby_code \in DOMAIN lobbies
         /\ LobbyOf(d).current_state = WAITING
         /\ Len(LobbyOf(d).players) >= MaxPlayers) => JoinRejected(s, "Lobby is full!")

\* C4: no roster ever holds more than 12 players, and a join_lobby that
\* finds 12 players in the roster of a waiting lobby sends "Lobby is full!"
\* to its sender and changes neither a roster nor player_to_lobby.
C4_CapacityRespected == []RosterWithinCapacity /\ [][FullJoinRejected]_vars

\* C5: a join_lobby that names a registered lobby whose state is not WAITING
\* sends an error to its sender and changes neither a roster nor
\* player_to_lobby.
C5_JoinRejectedAfterStart ==
    [][\A s \in Sids, d \in JoinInputs :
        (/\ JoinLobby(s, d)
         /\ d.lobby_code \in DOMAIN lobbies
         /\ LobbyOf(d).current_state # WAITING) => JoinRejected(s, "Game is already started!")]_vars

Score(players, id) ==
    LET RECURSIVE Sum(_)
        Sum(i) == IF i = 0 THEN 0
                  ELSE (IF players[i].id = id THEN players[i].voting_score ELSE 0) + Sum(i - 1)
    IN  Sum(Len(players))

ScoresMove(before, after, id, amount) ==
    \A m \in SeqToSet(RosterIds(before)) :
        Score(after, m) = Score(before, m) + (IF m = id THEN amount ELSE 0)

PresenterSending(ref) ==
    \E t \in Slots : tasks[t].pc = "presenter_loop" /\ tasks[t].lob = ref

\* C9: between two set_presenter events a vote_presentation of V for T
\* changes the lobby only when V is on the roster, V is not T and no vote
\* of V was accepted in the round; then T's score grows by the amount and
\* no other score moves; a vote of V for itself and a further vote of V in
\* the round leave every score as it was.  The round of a vote is taken
\* in favour of the code: two votes count as votes of one round only when
\* no set_presenter handler started or returned between them, and a vote
\* counts as the first of its round only when no set_presenter handler is
\* still sending.
C9_OneVotePerRound ==
    [][\A s \in Sids, d \in VoteInputs :
          (VotePresentation(s, d) /\ get_lobby_and_player(get_id_from_sid(s))[1] # NoLobby) =>
              LET V == get_id_from_sid(s)
                  ref == get_lobby_and_player(V)[1]
                  before == heap[ref].players
                  after == heap'[ref].players
                  member == CountWithId(before, V) > 0 /\ V # d.id
              IN  /\ after # before => member /\ V \notin heap[ref].recent_voters
                  /\ (member /\ V \notin heap[ref].round_voters /\ ~PresenterSending(ref)) =>
                        ScoresMove(before, after, d.id, d.score)
                  /\ (V = d.id \/ V \in heap[ref].recent_voters) =>
                        ScoresMove(before, after, d.id, 0)]_vars

HoldsPrompt(players, id, text) ==
    \E i \in 1..Len(players) : players[i].id = id /\ players[i].prompt_given = text

GameEndWithZeroScores(sent) ==
    \E k \in 1..Len(sent) :
        /\ sent[k].ev = "game_end"
        /\ Len(sent[k].data) = 2
        /\ \A i \in 1..Len(sent[k].data) : sent[k].data[i].score = 0

\* C10: the scenario of H and P runs to completion: hand_out_prompts never
\* stays in its shuffle loop, when it has returned H holds P's prompt "dog"
\* and P holds H's prompt "cat", and done_presenting sends one game_end
\* whose list has both players with score 0.
C10_ScenarioRunsToGameEnd ==
    \A t \in Slots :
        /\ InShuffleLoop(t) => CanBreak(t)
        /\ HandOutDone(t) =>
              /\ HoldsPrompt(heap[tasks[t].lob].players, get_id_from_sid("s1"), "dog")
              /\ HoldsPrompt(heap[tasks[t].lob].players, get_id_from_sid("s2"), "cat")
        /\ (tasks[t].op = "done_presenting" /\ tasks[t].pc = "done") =>
              GameEndWithZeroScores(tasks[t].sent)

\* C11: create_lobby never returns a code that is a key of the lobby
\* registry at that moment, and no key of the registry is ever rebound to
\* another lobby: the live lobbies have codes different from one another.
C11_LiveCodesUnique ==
    [][/\ Len(heap') > Len(heap) =>
             heap'[Len(heap')].lobby_code \notin DOMAIN lobbies
       /\ \A k \in DOMAIN lobbies \cap DOMAIN lobbies' : lobbies'[k] = lobbies[k]]_vars

HostOnRoster(lobby) == CountWithId(lobby.players, lobby.host_id) > 0

\* C12 as stated: the host_id of every registered lobby is the id of some
\* Player of its roster.
C12_HostIsOnRoster ==
    \A k \in DOMAIN lobbies : HostOnRoster(heap[lobbies[k]])

\* C12 as amended: create_lobby records the host and leaves the roster
\* empty, the host_id of a lobby never changes, and once the host's
\* identity is on the roster (by a join_lobby of its own) it stays there.
C12_HostJoinsSeparately ==
    [][/\ Len(heap') > Len(heap) => heap'[Len(heap')].players = <<>>
       /\ \A i \in 1..Len(heap) :
             /\ heap'[i].host_id = heap[i].host_id
             /\ HostOnRoster(heap[i]) => HostOnRoster(heap'[i])]_vars

C12_Witness ==
    \E k \in DOMAIN lobbies :
        /\ HostOnRoster(heap[lobbies[k]])
        /\ \E t \in Slots : /\ tasks[t].op = "join_lobby"
                            /\ tasks[t].pc = "done"
                            /\ tasks[t].pid = heap[lobbies[k]].host_id

RosterOf(k) == heap[lobbies[k]].players

\* C13: an identity is on the roster of at most one registered lobby, and
\* at most once on that roster.
C13_OneRosterEntryPerIdentity ==
    \A k1, k2 \in DOMAIN lobbies :
        \A i \in 1..Len(RosterOf(k1)), j \in 1..Len(RosterOf(k2)) :
            RosterOf(k1)[i].id = RosterOf(k2)[j].id => (k1 = k2 /\ i = j)

Quiescent == \A t \in Slots : tasks[t].pc \in {"idle", "done", "raised"}

OnSomeRoster(id) == \E k \in DOMAIN lobbies : CountWithId(RosterOf(k), id) > 0

RegisteredHosts == {heap[lobbies[k]].host_id : k \in DOMAIN lobbies}

RosterIdentities ==
    UNION {SeqToSet(RosterIds(RosterOf(k))) : k \in DOMAIN lobbies}

\* C14: when no handler is suspended, an identity has a player_to_lobby
\* entry if and only if it is on the roster of a registered lobby, and the
\* entry names a registered lobby whose roster holds the identity.  The
\* hosts of the registered lobbies are left out: create_lobby gives the host
\* its entry without putting it on the roster.
C14_ReverseIndexMatchesRosters ==
    Quiescent =>
        \A id \in (DOMAIN player_to_lobby \cup RosterIdentities) \ RegisteredHosts :
            /\ id \in DOMAIN player_to_lobby <=> OnSomeRoster(id)
            /\ id \in DOMAIN player_to_lobby =>
                  /\ player_to_lobby[id] \in DOMAIN lobbies
                  /\ CountWithId(RosterOf(player_to_lobby[id]), id) > 0

JoinAccepted(t) ==
    /\ tasks[t].op = "join_lobby"
    /\ tasks[t].pc = "done"
    /\ tasks[t].lob # NoLobby

RosterSentTo(sent, to, id) ==
    \E k \in 1..Len(sent) :
        /\ sent[k].ev = "players_update"
        /\ sent[k].to = to
        /\ \E i \in 1..Len(sent[k].data) : sent[k].data[i].id = id

\* C15: a join_lobby that was accepted has sent joined_lobby with the code
\* to its sender, and players_update with a roster that holds the new player
\* to the host and to every member of the roster.
C15_JoinAnnouncedToAll ==
    \A t \in Slots :
        JoinAccepted(t) =>
            LET lobby == heap[tasks[t].lob] IN
            /\ CountMsgs(tasks[t].sent, "joined_lobby", tasks[t].sid) = 1
            /\ \A id \in {lobby.host_id} \cup SeqToSet(RosterIds(lobby.players)) :
                  RosterSentTo(tasks[t].sent, get_sid_from_id(id), tasks[t].pid)

DonePresentingHandled(t) ==
    /\ tasks[t].op = "done_presenting"
    /\ tasks[t].pc = "done"
    /\ tasks[t].lob # NoLobby

\* C16: when done_presenting has been handled for a sender that is in a
\* lobby, every member of the roster has been sent a game_end whose list
\* has one {username, score} entry per roster member, the score being the
\* member's voting_score.
C16_GameEndDelivered ==
    \A t \in Slots :
        DonePresentingHandled(t) =>
            \A id \in SeqToSet(tasks[t].snap) :
                \E k \in 1..Len(tasks[t].sent) :
                    /\ tasks[t].sent[k].ev = "game_end"
                    /\ tasks[t].sent[k].to = get_sid_from_id(id)
                    /\ tasks[t].sent[k].data = PlayerStats(heap[tasks[t].lob].players)

PhaseAfter(op) ==
    IF op = "create_lobby" THEN WAITING
    ELSE IF op = "start_game" THEN WRITING
    ELSE IF op = "hand_out_prompts" THEN VIEWING
    ELSE IF op = "start_drawing" THEN DRAWING
    ELSE END

PhaseEvents ==
    {"create_lobby", "start_game", "hand_out_prompts", "start_drawing", "done_presenting"}

\* C17: when the handler of a host event has returned, the lobby is in the
\* phase the transition table gives for the event: WAITING after
\* create_lobby, WRITING after start_game, VIEWING after hand_out_prompts,
\* DRAWING after start_drawing and END after done_presenting.
C17_PhaseFollowsTable ==
    \A t \in Slots :
        (tasks[t].op \in PhaseEvents /\ tasks[t].pc = "done" /\ tasks[t].lob # NoLobby) =>
            heap[tasks[t].lob].current_state = PhaseAfter(tasks[t].op)

MemberNotHost(sid) ==
    LET player_id == get_id_from_sid(sid)
        ref == get_lobby_and_player(player_id)[1]
    IN  /\ ref # NoLobby
        /\ CountWithId(heap[ref].players, player_id) > 0
        /\ ~IsHost(heap[ref], player_id)

\* C18: a start_game sent by a roster member whose identity is not the
\* host_id of its lobby leaves the current_state of every lobby as it was.
C18_OnlyHostStartsGame ==
    [][\A s \in Sids :
          (MemberNotHost(s) /\ StartGame(s)) =>
              \A i \in 1..Len(heap) : heap'[i].current_state = heap[i].current_state]_vars

WithoutIdentity(players, id) == SelectSeq(players, LAMBDA p : p.id # id)

NonHostLeaves(sid) ==
    LET id == get_id_from_sid(sid)
        ref == get_lobby_and_player(id)[1]
    IN  /\ CountWithId(heap'[ref].players, id) = 0
        /\ id \notin DOMAIN player_to_lobby'
        /\ heap'[ref].players = WithoutIdentity(heap[ref].players, id)
        /\ heap'[ref].current_state = heap[ref].current_state
        /\ heap'[ref].host_id = heap[ref].host_id
        /\ lobbies' = lobbies

NonHostLeaveAnnounced ==
    \A t \in Slots :
        (/\ tasks[t].op = "disconnect"
         /\ tasks[t].pc = "done"
         /\ tasks[t].lob # NoLobby
         /\ ~IsHost(heap[tasks[t].lob], tasks[t].pid)) =>
            LET lobby == heap[tasks[t].lob] IN
            \A id \in {lobby.host_id} \cup SeqToSet(RosterIds(lobby.players)) :
                \E k \in 1..Len(tasks[t].sent) :
                    /\ tasks[t].sent[k].ev = "players_update"
                    /\ tasks[t].sent[k].to = get_sid_from_id(id)
                    /\ tasks[t].sent[k].data = tasks[t].loc.players

\* C19: when the connection of a roster member that is not the host closes,
\* disconnect removes every roster entry of the identity and its
\* player_to_lobby entry, leaves every other Player, the state and the host
\* of the lobby and the registry as they were, and has sent players_update
\* with the reduced roster to the host and to every remaining member when
\* it returns.
C19_NonHostDisconnectFrame ==
    /\ [][\A s \in Sids : (MemberNotHost(s) /\ Disconnect(s)) => NonHostLeaves(s)]_vars
    /\ []NonHostLeaveAnnounced

\* A handler that has made a send and waits in it.
Suspended(t) ==
    tasks[t].pc \in {"on_join", "broadcast", "submit_loop", "hop_give",
                     "presenter_loop", "host_loop", "fan_loop"}

\* The fields of a Lobby and of its Players that the program holds.
ProgramPlayer(p) ==
    [id |-> p.id, username |-> p.username, prompt_written |-> p.prompt_written,
     prompt_given |-> p.prompt_given, drawing_data |-> p.drawing_data,
     voted_already |-> p.voted_already, voting_score |-> p.voting_score]

ProgramLobby(lobby) ==
    [host_id |-> lobby.host_id, lobby_code |-> lobby.lobby_code,
     current_state |-> lobby.current_state,
     players |-> [i \in 1..Len(lobby.players) |-> ProgramPlayer(lobby.players[i])]]

\* C20: a handler writes nothing to the shared state after its first
\* suspending send: the step that resumes a suspended handler leaves the
\* dictionaries and every lobby, the vote flags included, as they were.
C20_WritesBeforeSends ==
    [][\A t \in Slots :
          (Suspended(t) /\ tasks'[t] # tasks[t]) =>
              /\ lobbies' = lobbies
              /\ player_to_lobby' = player_to_lobby
              /\ sid_to_id' = sid_to_id
              /\ id_to_sid' = id_to_sid
              /\ \A i \in 1..Len(heap) : ProgramLobby(heap'[i]) = ProgramLobby(heap[i])]_vars

\* A multi-send broadcast over the roster that has returned.
BroadcastDone(t) ==
    /\ tasks[t].op \in {"start_game", "cancel_game"}
    /\ tasks[t].pc = "done"
    /\ tasks[t].lob # NoLobby

BroadcastEvent(t) == IF tasks[t].op = "start_game" THEN "game_state" ELSE "cancel_game"

CountIn(ids, id) == Cardinality({i \in 1..Len(ids) : ids[i] = id})

\* The identity has as many roster entries as when the broadcast began.
StaysOnRoster(t, id) ==
    CountWithId(heap[tasks[t].lob].players, id) = CountIn(tasks[t].snap, id)

\* C21: when a broadcast over the roster (start_game, cancel_game) has
\* returned, every identity that was on the roster when it began and is
\* still on it has been sent the event once for each of its entries, whatever
\* disconnect removed from the roster while the broadcast was suspended.
C21_BroadcastUsesSnapshot ==
    \A t \in Slots :
        BroadcastDone(t) =>
            \A m \in SeqToSet(tasks[t].snap) :
                StaysOnRoster(t, m) =>
                    CountMsgs(tasks[t].sent, BroadcastEvent(t), get_sid_from_id(m))
                        = CountIn(tasks[t].snap, m)

\* A send_reaction, returned or raised, of an identity that belongs to a
\* lobby and has a Player on its roster.
ReactionHandled(t) ==
    /\ tasks[t].op = "send_reaction"
    /\ Finished(t)
    /\ tasks[t].lob # NoLobby
    /\ FirstWithId(heap[tasks[t].lob].players, tasks[t].pid) # 0

\* The username of the sender's roster entry.
SenderUsername(t) ==
    LET players == heap[tasks[t].lob].players
    IN  players[FirstWithId(players, tasks[t].pid)].username

\* The message is a reaction event to the host's connection whose payload
\* has the emoji and the sender's username.
IsReactionToHost(t, msg) ==
    /\ msg.ev = "reaction"
    /\ msg.to = get_sid_from_id(heap[tasks[t].lob].host_id)
    /\ {"emoji", "username"} \subseteq DOMAIN msg.data
    /\ msg.data.emoji = tasks[t].arg
    /\ msg.data.username = SenderUsername(t)

\* C22: a send_reaction from an identity on the roster of its lobby returns
\* without raising, having sent the lobby's host one reaction event with
\* the emoji and the sender's username.
C22_ReactionReachesHost ==
    \A t \in Slots :
        ReactionHandled(t) =>
            /\ tasks[t].pc = "done"
            /\ Len(tasks[t].sent) = 1
            /\ IsReactionToHost(t, tasks[t].sent[1])

\* The identity bound to connection s has since been bound, by a later
\* assign_id, to another connection that is still open.
Superseded(s) ==
    /\ s \in DOMAIN sid_to_id
    /\ sid_to_id[s] \in DOMAIN id_to_sid
    /\ id_to_sid[sid_to_id[s]] # s
    /\ id_to_sid[sid_to_id[s]] \in connected
    /\ Get(sid_to_id, id_to_sid[sid_to_id[s]], None) = sid_to_id[s]

\* The step in which connection s closes and its disconnect handler begins.
Closes(s) == s \in connected /\ s \notin connected'

\* The step leaves the identity's bindings, reverse index entry and roster
\* entries as they were and begins no teardown of a lobby.
SurvivesStep(id) ==
    /\ id \in DOMAIN id_to_sid'
    /\ id_to_sid'[id] = id_to_sid[id]
    /\ Get(sid_to_id', id_to_sid[id], None) = id
    /\ Get(player_to_lobby', id, NoCode) = Get(player_to_lobby, id, NoCode)
    /\ \A i \in 1..Len(heap) :
          CountWithId(heap'[i].players, id) = CountWithId(heap[i].players, id)
    /\ lobbies' = lobbies
    /\ tasks'[FreeSlot].pc # "host_loop"

\* C23: when a connection closes whose identity belongs to a lobby and has
\* been bound again by a later connection (a reconnect), the identity keeps
\* its binding to the later connection, its reverse index entry and its
\* roster entries, and its lobby is not torn down.
C23_ReconnectSurvives ==
    [][\A s \in Sids :
          (Closes(s) /\ Superseded(s) /\ sid_to_id[s] \in DOMAIN player_to_lobby)
              => SurvivesStep(sid_to_id[s])]_vars

====
